---------------------------- MODULE Spec2Model ----------------------------
(***************************************************************************)
(* simple_parallel::Pool (src/src/pool.rs): a caller thread, one           *)
(* supervisor thread and n_threads worker threads that talk over mpsc      *)
(* channels.  A channel is a FIFO sequence plus the liveness of its ends:  *)
(* send fails once the receiver is dropped, recv fails once the queue is   *)
(* empty and every sender is dropped.                                      *)
(*                                                                         *)
(* Atomicity.  Each action holds at most one step another thread can       *)
(* observe, together with the thread-local code around it; a receive and   *)
(* the reply it triggers are merged where the only thread that can observe *)
(* the reply is blocked waiting for it.                                    *)
(***************************************************************************)
EXTENDS Integers, Sequences, FiniteSets, TLC

\* ------------------------------------------------------------------ bounds
MaxThreads == 2      \* n_threads ranges over 0..MaxThreads
MaxLen == 3          \* length of the input sequence ranges over 0..MaxLen
MaxJobs == 2         \* jobs submitted to one pool

\* ------------------------------------------------------- program constants
\* pool.rs:60, the doc example's second array; inputs are its prefixes
Elements == <<2, 0, 1, 5, 0, 3, 0, 3>>
\* pool.rs:289 / 383, the doc examples' closure  |i| i + 10
FOffset == 10
F(x) == x + FOffset

Kinds == {"for", "unordered", "map"}
Ctrl == -1           \* holder of the original needwork_tx (the job's `data`)
End == <<>>          \* iter.next() == None on a work channel
StopMsg == 0         \* Option<Job>::None on the job queue; jobs are ids >= 1

VARIABLES
    \* ---- caller
    cpc,          \* caller position
    outcome,      \* what the last wait / drop / teardown reported to the caller
    jobsStarted,  \* number of execute() calls so far; id of the current job
    \* ---- Pool
    nThreads,     \* Pool.n_threads
    jobQ,         \* job_queue channel contents
    jobRxAlive,   \* supervisor's receiver `rx` of job_queue not yet dropped
    jobFinished,  \* job_finished channel contents
    \* ---- supervisor thread
    spc,          \* supervisor position
    sk,           \* index of the next worker to get its Work (zip loop)
    supPanicking, \* thread::panicking() on the supervisor
    panicked,     \* the AtomicBool `panicked`
    subq,         \* per worker: contents of its Work channel (job ids)
    subTxAlive,   \* `txs` (the senders of the Work channels) not yet dropped
    \* ---- worker threads
    wpc,          \* per worker: position
    wjob,         \* per worker: job whose closure it runs, or 0
    cur,          \* per worker: the (index, element) it holds, or <<>>
    \* ---- the current job (channels made by for_ / unordered_map)
    kind,         \* "for" | "unordered" | "map"
    input,        \* the sequence `iter`
    nextIdx,      \* number of elements taken from `iter`
    needQ,        \* needwork channel contents (worker ids)
    needTx,       \* live senders of needwork: Ctrl and worker ids
    jobAlive,     \* the job closure (main_fn, worker_fns, gen_fn) not yet dropped
    workQ,        \* per worker: its private reply channel
    resQ,         \* result channel of unordered_map (Packets)
    resRxAlive,   \* the iterator's receiver `rx` not yet dropped
    \* ---- iterator held by the caller
    out,          \* items yielded so far
    lookingFor,   \* ParMap.looking_for
    queue,        \* ParMap.queue
    ended,        \* next() has returned None
    \* ---- history
    calls,        \* per element index: number of invocations of f
    failed,       \* element indices on which f panicked in the current job
    gotEnd,       \* workers that received the end marker in the current job
    prevMap,      \* <<input, output>> of the preceding job, when that was a map
                  \* call on the current input that ran to its end; else <<>>
    workSent,     \* per worker: Work closures of the current job sent to it
    workRun,      \* per worker: Work closures of the current job it invoked
    ub            \* a worker used a Work closure after the job closure was freed

vars == <<cpc, outcome, jobsStarted, nThreads, jobQ, jobRxAlive, jobFinished,
          spc, sk, supPanicking, panicked, subq, subTxAlive, wpc, wjob, cur,
          kind, input, nextIdx, needQ, needTx, jobAlive, workQ, resQ,
          resRxAlive, out, lookingFor, queue, ended, calls, failed, gotEnd,
          prevMap, workSent, workRun, ub>>

callerVars == <<cpc, outcome, jobsStarted>>
poolVars == <<nThreads, jobQ, jobRxAlive, jobFinished>>
supVars == <<spc, sk, supPanicking, subTxAlive>>
workerVars == <<wpc, wjob, cur>>
jobChanVars == <<needQ, needTx, jobAlive, workQ, nextIdx>>
jobDescVars == <<kind, input>>
iterVars == <<out, lookingFor, queue, ended>>
histVars == <<calls, failed, gotEnd, prevMap, workSent, workRun>>

Workers == 0 .. (nThreads - 1)

\* mutant: the factory is called one time too few
WorkerFnsShort == 0 .. (nThreads - 2)

\* worker_fns = (0..n_threads).map(|_| gen_fn(&mut data)).collect(), by index
WorkerFns == 0 .. (nThreads - 1)

\* ----------------------------------------------------------------- helpers
\* mpsc::Sender::send on a channel whose receiver is alive
Send(q, m) == Append(q, m)

\* mutant: the two fields of the Packet filled the wrong way round
PacketSwapped(i, d) == [idx |-> d, data |-> i]

\* Packet (pool.rs:472)
Packet(i, d) == [idx |-> i, data |-> d]

\* mutant: the ordering not reversed, so the max-heap yields the greatest idx
PacketCmpNatural(self, other) ==
    IF self.idx < other.idx THEN -1 ELSE IF self.idx = other.idx THEN 0 ELSE 1

\* Ord for Packet (pool.rs:482): other.idx.cmp(&self.idx), as -1 / 0 / 1
PacketCmp(self, other) ==
    IF other.idx < self.idx THEN -1 ELSE IF other.idx = self.idx THEN 0 ELSE 1

\* BinaryHeap::peek: the greatest element under Ord
Peek(h) == CHOOSE p \in h : \A r \in h : PacketCmp(p, r) >= 0

\* mutant: the head of the heap is taken whatever its index
FoundAny(h) == h # {}

\* mutant: an index that is missing is skipped
FoundSkipping(h) == h # {} /\ Peek(h).idx >= lookingFor

\* self.queue.peek().map_or(false, |x| x.idx == self.looking_for)
Found(h) == h # {} /\ Peek(h).idx = lookingFor

\* mutant: the last element of the sequence is never handed out
IterNextSkipLast ==
    IF nextIdx + 1 < Len(input) THEN <<nextIdx, input[nextIdx + 1]>> ELSE <<>>

\* mutant: one element past the end of the sequence is handed out
IterNextPastEnd ==
    IF nextIdx <= Len(input) THEN <<nextIdx, Elements[nextIdx + 1]>> ELSE <<>>

\* mutant: the iterator does not advance past its first element
IterNextRepeat == IF nextIdx < Len(input) THEN <<0, input[1]>> ELSE <<>>

\* iter.next() of the fused, enumerated iterator: (index, element) or None
IterNext == IF nextIdx < Len(input) THEN <<nextIdx, input[nextIdx + 1]>> ELSE End

\* mutant: every reply goes to the first worker's channel
ReplyChannelFirst(id) == 0

\* work_txs[id.n]: the private channel of the worker that asked
ReplyChannel(id) == id

\* the job's channels still belong to the job worker i runs
Live(i) == wjob[i] = jobsStarted /\ jobAlive

\* the closure returns or unwinds: its locals `needwork` and `work_rx` drop
LeaveClosure(i) ==
    /\ needTx' = needTx \ {i}
    /\ wjob' = [wjob EXCEPT ![i] = 0]

\* the supervisor has dropped its PanicHandler (the sender of job_finished)
SupAcked == spc \in {"drop_txs", "join", "terminated"}

InClosure(i) == wpc[i] \in {"recv_elem", "call_f", "send_need"}

\* mutant: the worker's thread ends after its first Work
AfterClosureExit == "done"

\* the worker's loop: after (work.func)(id) returns it is back at subrx.recv()
AfterClosure == "recv_work"

\* mutant: the status of tx.send is ignored
ResultSendIgnored == TRUE

\* tx.send(Packet { .. }) returns Ok: the iterator still holds `rx`
ResultSendOk == resRxAlive

\* mutant: the handle does not borrow the pool
PoolBorrowableAnytime == cpc \in {"idle", "wait", "iter"}

\* execute takes &'pool mut self and the JobHandle keeps that borrow: a job
\* can be submitted only while no handle of the pool is outstanding
PoolBorrowable == cpc = "idle"

\* -------------------------------------------------------------------- Init
Init ==
    /\ cpc = "start" /\ outcome = "none" /\ jobsStarted = 0
    /\ nThreads = 0 /\ jobQ = <<>> /\ jobRxAlive = FALSE /\ jobFinished = <<>>
    /\ spc = "none" /\ sk = 0 /\ supPanicking = FALSE /\ panicked = FALSE
    /\ subq = <<>> /\ subTxAlive = FALSE
    /\ wpc = <<>> /\ wjob = <<>> /\ cur = <<>>
    /\ kind = "for" /\ input = <<>> /\ nextIdx = 0
    /\ needQ = <<>> /\ needTx = {} /\ jobAlive = FALSE
    /\ workQ = <<>> /\ resQ = <<>> /\ resRxAlive = FALSE
    /\ out = <<>> /\ lookingFor = 0 /\ queue = {} /\ ended = FALSE
    /\ calls = <<>> /\ failed = {} /\ gotEnd = {} /\ prevMap = <<>>
    /\ workSent = <<>> /\ workRun = <<>>
    /\ ub = FALSE

\* ------------------------------------------------------------------ caller
\* Pool::new(n): channels made, supervisor spawned, which spawns the workers
New(n) ==
    /\ cpc = "start"
    /\ cpc' = "idle"
    /\ nThreads' = n
    /\ jobRxAlive' = TRUE
    /\ spc' = "recv_job"
    /\ subTxAlive' = TRUE
    /\ subq' = [i \in 0 .. (n - 1) |-> <<>>]
    /\ wpc' = [i \in 0 .. (n - 1) |-> "recv_work"]
    /\ wjob' = [i \in 0 .. (n - 1) |-> 0]
    /\ cur' = [i \in 0 .. (n - 1) |-> <<>>]
    /\ workQ' = [i \in 0 .. (n - 1) |-> <<>>]
    /\ UNCHANGED <<outcome, jobsStarted, jobQ, jobFinished, sk, supPanicking,
                   panicked, kind, input, nextIdx, needQ, needTx, jobAlive,
                   resQ, resRxAlive, iterVars, histVars, ub>>

\* for_ / unordered_map / map up to execute_nonunsafe's job_queue.send
Submit(k, len) ==
    /\ PoolBorrowable
    /\ jobsStarted < MaxJobs
    /\ jobsStarted' = jobsStarted + 1
    /\ kind' = k
    /\ input' = SubSeq(Elements, 1, len)
    /\ nextIdx' = 0
    /\ needQ' = <<>>
    /\ workQ' = [i \in Workers |-> <<>>]
    /\ resQ' = <<>>
    /\ out' = <<>> /\ lookingFor' = 0 /\ queue' = {} /\ ended' = FALSE
    /\ calls' = [i \in 0 .. (len - 1) |-> 0]
    /\ failed' = {} /\ gotEnd' = {}
    /\ workSent' = [i \in Workers |-> 0]
    /\ workRun' = [i \in Workers |-> 0]
    /\ prevMap' = IF k = "map" /\ prevMap # <<>>
                      /\ prevMap[1] = SubSeq(Elements, 1, len)
                   THEN prevMap ELSE <<>>
    /\ IF jobRxAlive
         THEN /\ jobQ' = Send(jobQ, jobsStarted + 1)
              /\ needTx' = {Ctrl}
              /\ jobAlive' = TRUE
              /\ resRxAlive' = (k # "for")
              /\ cpc' = IF k = "for" THEN "wait" ELSE "iter"
              /\ UNCHANGED outcome
         ELSE \* send fails, unwrap panics on the caller; the job is dropped
              /\ needTx' = {}
              /\ jobAlive' = FALSE
              /\ resRxAlive' = FALSE
              /\ outcome' = "err"
              /\ UNCHANGED <<jobQ, cpc>>
    /\ UNCHANGED <<nThreads, jobRxAlive, jobFinished, supVars, panicked, subq,
                   workerVars, ub>>

\* UnorderedParMap::next
UnorderedNext ==
    /\ cpc = "iter" /\ kind = "unordered" /\ ~ended
    /\ IF resQ # <<>>
         THEN /\ out' = Append(out, <<Head(resQ).idx, Head(resQ).data>>)
              /\ resQ' = Tail(resQ)
              /\ UNCHANGED ended
         ELSE /\ ~jobAlive
              /\ ended' = TRUE
              /\ UNCHANGED <<out, resQ>>
    /\ UNCHANGED <<callerVars, poolVars, supVars, panicked, subq, workerVars,
                   jobDescVars, jobChanVars, resRxAlive, lookingFor, queue,
                   histVars, ub>>

\* ParMap::next, one turn of its loop
MapNext ==
    /\ cpc = "iter" /\ kind = "map" /\ ~ended
    /\ IF Found(queue)
         THEN /\ queue' = queue \ {Peek(queue)}
              /\ lookingFor' = lookingFor + 1
              /\ out' = Append(out, Peek(queue).data)
              /\ UNCHANGED <<resQ, ended>>
         ELSE IF resQ # <<>>
           THEN /\ queue' = queue \cup {Head(resQ)}
                /\ resQ' = Tail(resQ)
                /\ UNCHANGED <<out, lookingFor, ended>>
           ELSE /\ ~jobAlive
                /\ ended' = TRUE
                /\ UNCHANGED <<out, lookingFor, queue, resQ>>
    /\ UNCHANGED <<callerVars, poolVars, supVars, panicked, subq, workerVars,
                   jobDescVars, jobChanVars, resRxAlive, histVars, ub>>

\* the iterator is dropped: `rx` first, then `_guard` (the JobHandle)
IterDrop ==
    /\ cpc = "iter"
    /\ cpc' = "wait"
    /\ resRxAlive' = FALSE
    /\ resQ' = <<>>
    /\ prevMap' = IF kind = "map" /\ ended THEN <<input, out>> ELSE <<>>
    /\ UNCHANGED <<outcome, jobsStarted, poolVars, supVars, panicked, subq,
                   workerVars, jobDescVars, jobChanVars, iterVars, calls,
                   failed, gotEnd, workSent, workRun, ub>>

\* job_finished.recv().unwrap().unwrap() of JobHandle::wait / drop
Wait ==
    /\ cpc = "wait"
    /\ IF jobFinished # <<>>
         THEN /\ outcome' = Head(jobFinished)
              /\ jobFinished' = Tail(jobFinished)
         ELSE /\ SupAcked
              /\ outcome' = "err"
              /\ UNCHANGED jobFinished
    /\ cpc' = "idle"
    /\ UNCHANGED <<jobsStarted, nThreads, jobQ, jobRxAlive, supVars, panicked,
                   subq, workerVars, jobDescVars, jobChanVars, resQ,
                   resRxAlive, iterVars, histVars, ub>>

\* Drop for Pool, first line: job_queue.send(None).unwrap()
TeardownSend ==
    /\ cpc = "idle"
    /\ IF jobRxAlive
         THEN /\ jobQ' = Send(jobQ, StopMsg)
              /\ cpc' = "drop_recv"
              /\ UNCHANGED outcome
         ELSE /\ cpc' = "dropped"
              /\ outcome' = "err"
              /\ UNCHANGED jobQ
    /\ UNCHANGED <<jobsStarted, nThreads, jobRxAlive, jobFinished, supVars,
                   panicked, subq, workerVars, jobDescVars, jobChanVars, resQ,
                   resRxAlive, iterVars, histVars, ub>>

\* Drop for Pool, second line: job_finished.recv().unwrap().unwrap()
TeardownRecv ==
    /\ cpc = "drop_recv"
    /\ IF jobFinished # <<>>
         THEN /\ outcome' = Head(jobFinished)
              /\ jobFinished' = Tail(jobFinished)
         ELSE /\ SupAcked
              /\ outcome' = "err"
              /\ UNCHANGED jobFinished
    /\ cpc' = "dropped"
    /\ UNCHANGED <<jobsStarted, nThreads, jobQ, jobRxAlive, supVars, panicked,
                   subq, workerVars, jobDescVars, jobChanVars, resQ,
                   resRxAlive, iterVars, histVars, ub>>

\* -------------------------------------------------------------- supervisor
\* the job closure is dropped: main_fn's needwork_rx (with the requests
\* still queued) and work_txs, the worker_fns (their needwork_tx and tx
\* clones) and gen_fn's tx
DropJobClosure ==
    /\ jobAlive' = FALSE
    /\ needQ' = <<>>
    /\ needTx' = {i \in needTx : i \in Workers /\ InClosure(i)
                                   /\ wjob[i] = jobsStarted}

\* while let Ok(Some(job)) = rx.recv(); then the job closure up to the zip
\* loop: gen_fn is called n_threads times, each call clones needwork_tx
SupRecvJob ==
    /\ spc = "recv_job"
    /\ jobQ # <<>>
    /\ jobQ' = Tail(jobQ)
    /\ IF Head(jobQ) = StopMsg
         THEN /\ spc' = "ack"
              /\ UNCHANGED <<sk, needTx>>
         ELSE /\ spc' = IF WorkerFns = {} \/ nThreads = 0
                         THEN "main_fn" ELSE "dispatch"
              /\ sk' = 0
              /\ needTx' = needTx \cup WorkerFns
    /\ UNCHANGED <<callerVars, nThreads, jobRxAlive, jobFinished, supPanicking,
                   panicked, subq, subTxAlive, workerVars, jobDescVars, needQ,
                   jobAlive, workQ, nextIdx, resQ, resRxAlive, iterVars,
                   histVars, ub>>

\* worker.send(Work { func: func }).unwrap() for worker sk, one turn of the
\* loop over worker_fns.iter_mut().zip(workers.iter())
SupDispatch ==
    /\ spc = "dispatch"
    /\ IF wpc[sk] # "done"
         THEN /\ subq' = [subq EXCEPT ![sk] = Send(@, jobsStarted)]
              /\ workSent' = [workSent EXCEPT ![sk] = @ + 1]
              /\ sk' = sk + 1
              /\ spc' = IF sk + 1 \in WorkerFns \cap Workers
                         THEN "dispatch" ELSE "main_fn"
              /\ UNCHANGED <<supPanicking, needTx, jobAlive, needQ>>
         ELSE \* the worker's subrx is gone: unwrap panics, the job closure
              \* unwinds and the supervisor's locals drop in reverse order
              /\ supPanicking' = TRUE
              /\ DropJobClosure
              /\ spc' = "ack"
              /\ UNCHANGED <<subq, sk, workSent>>
    /\ UNCHANGED <<callerVars, poolVars, panicked, subTxAlive, workerVars,
                   jobDescVars, workQ, nextIdx, resQ, resRxAlive,
                   iterVars, calls, failed, gotEnd, prevMap, workRun, ub>>

\* main_fn: iter.into_iter(), drop(needwork_tx)
SupCtrlStart ==
    /\ spc = "main_fn"
    /\ needTx' = needTx \ {Ctrl}
    /\ spc' = "ctrl_recv"
    /\ UNCHANGED <<callerVars, poolVars, sk, supPanicking, panicked, subq,
                   subTxAlive, workerVars, jobDescVars, needQ, jobAlive, workQ,
                   nextIdx, resQ, resRxAlive, iterVars, histVars, ub>>

\* main_fn: Ok(id) => work_txs[id.n].send(iter.next()).unwrap()
SupCtrlReply ==
    /\ spc = "ctrl_recv"
    /\ needQ # <<>>
    /\ needQ' = Tail(needQ)
    /\ workQ' = [workQ EXCEPT ![ReplyChannel(Head(needQ))] = Send(@, IterNext)]
    /\ nextIdx' = IF nextIdx < Len(input) THEN nextIdx + 1 ELSE nextIdx
    /\ UNCHANGED <<callerVars, poolVars, supVars, panicked, subq, workerVars,
                   jobDescVars, needTx, jobAlive, resQ, resRxAlive, iterVars,
                   histVars, ub>>

\* main_fn: Err(_) => break; the job closure returns and is dropped
SupCtrlEnd ==
    /\ spc = "ctrl_recv"
    /\ needQ = <<>>
    /\ needTx = {}
    /\ DropJobClosure
    /\ spc' = "finish"
    /\ UNCHANGED <<callerVars, poolVars, sk, supPanicking, panicked, subq,
                   subTxAlive, workerVars, jobDescVars, workQ, nextIdx,
                   resQ, resRxAlive, iterVars, histVars, ub>>

\* panicked.load, finished_tx.tx.send(msg).unwrap(), if job_panicked { break }
SupFinishJob ==
    /\ spc = "finish"
    /\ jobFinished' = Send(jobFinished, IF panicked THEN "err" ELSE "ok")
    /\ spc' = IF panicked THEN "ack" ELSE "recv_job"
    /\ UNCHANGED <<callerVars, nThreads, jobQ, jobRxAlive, sk, supPanicking,
                   panicked, subq, subTxAlive, workerVars, jobDescVars,
                   jobChanVars, resQ, resRxAlive, iterVars, histVars, ub>>

\* the supervisor closure ends: PanicHandler::drop runs first
SupAck ==
    /\ spc = "ack"
    /\ jobFinished' = Send(jobFinished, IF supPanicking THEN "err" ELSE "ok")
    /\ spc' = "drop_txs"
    /\ UNCHANGED <<callerVars, nThreads, jobQ, jobRxAlive, sk, supPanicking,
                   panicked, subq, subTxAlive, workerVars, jobDescVars,
                   jobChanVars, resQ, resRxAlive, iterVars, histVars, ub>>

\* then `txs` drops
SupDropTxs ==
    /\ spc = "drop_txs"
    /\ subTxAlive' = FALSE
    /\ spc' = "join"
    /\ UNCHANGED <<callerVars, poolVars, sk, supPanicking, panicked, subq,
                   workerVars, jobDescVars, jobChanVars, resQ, resRxAlive,
                   iterVars, histVars, ub>>

\* then `_guards` drops (joins every worker), then the closure's captured
\* `rx`: jobs still queued are dropped with it
SupJoin ==
    /\ spc = "join"
    /\ \A i \in Workers : wpc[i] = "done"
    /\ jobRxAlive' = FALSE
    /\ jobQ' = <<>>
    /\ IF \E j \in 1 .. Len(jobQ) : jobQ[j] = jobsStarted
         THEN DropJobClosure
         ELSE UNCHANGED <<jobAlive, needTx, needQ>>
    /\ spc' = "terminated"
    /\ UNCHANGED <<callerVars, nThreads, jobFinished, sk, supPanicking,
                   panicked, subq, subTxAlive, workerVars, jobDescVars,
                   workQ, nextIdx, resQ, resRxAlive, iterVars, histVars, ub>>

\* ----------------------------------------------------------------- workers
\* subrx.recv() == Ok(work); (work.func)(id) up to the first needwork.send
WorkerStart(i) ==
    /\ wpc[i] = "recv_work"
    /\ subq[i] # <<>>
    /\ subq' = [subq EXCEPT ![i] = Tail(@)]
    /\ workRun' = IF Head(subq[i]) = jobsStarted
                   THEN [workRun EXCEPT ![i] = @ + 1] ELSE workRun
    /\ IF Head(subq[i]) = jobsStarted /\ jobAlive
         THEN /\ wjob' = [wjob EXCEPT ![i] = Head(subq[i])]
              /\ needQ' = Send(needQ, i)
              /\ wpc' = [wpc EXCEPT ![i] = "recv_elem"]
              /\ UNCHANGED <<ub, needTx>>
         ELSE \* the closure behind the Work was freed by the supervisor:
              \* the send finds needwork_rx gone and unwrap panics
              /\ ub' = TRUE
              /\ LeaveClosure(i)
              /\ wpc' = [wpc EXCEPT ![i] = "canary"]
              /\ UNCHANGED needQ
    /\ UNCHANGED <<callerVars, poolVars, supVars, panicked, cur, jobDescVars,
                   jobAlive, workQ, nextIdx, resQ, resRxAlive, iterVars, calls,
                   failed, gotEnd, prevMap, workSent>>

\* subrx.recv() == Err(_) => break; the thread ends
WorkerExit(i) ==
    /\ wpc[i] = "recv_work"
    /\ subq[i] = <<>>
    /\ ~subTxAlive
    /\ wpc' = [wpc EXCEPT ![i] = "done"]
    /\ UNCHANGED <<callerVars, poolVars, supVars, panicked, subq, wjob, cur,
                   jobDescVars, jobChanVars, resQ, resRxAlive, iterVars,
                   histVars, ub>>

\* match work_rx.recv()
WorkerRecvElem(i) ==
    /\ wpc[i] = "recv_elem"
    /\ IF Live(i)
         THEN /\ workQ[i] # <<>>
              /\ workQ' = [workQ EXCEPT ![i] = Tail(@)]
              /\ IF Head(workQ[i]) = End
                   THEN /\ LeaveClosure(i)
                        /\ wpc' = [wpc EXCEPT ![i] = AfterClosure]
                        /\ gotEnd' = gotEnd \cup {i}
                        /\ UNCHANGED cur
                   ELSE /\ cur' = [cur EXCEPT ![i] = Head(workQ[i])]
                        /\ wpc' = [wpc EXCEPT ![i] = "call_f"]
                        /\ UNCHANGED <<needTx, wjob, gotEnd>>
         ELSE \* work_txs dropped with the job closure: Err(_) => break
              /\ LeaveClosure(i)
              /\ wpc' = [wpc EXCEPT ![i] = AfterClosure]
              /\ UNCHANGED <<cur, workQ, gotEnd>>
    /\ UNCHANGED <<callerVars, poolVars, supVars, panicked, subq,
                   jobDescVars, needQ, jobAlive, nextIdx, resQ, resRxAlive,
                   iterVars, calls, failed, prevMap, workSent, workRun, ub>>

\* f(elem) returns; in unordered_map the Packet is sent on tx
WorkerCallOk(i) ==
    /\ wpc[i] = "call_f"
    /\ calls' = [calls EXCEPT ![cur[i][1]] = @ + 1]
    /\ cur' = [cur EXCEPT ![i] = <<>>]
    /\ IF kind = "for" \/ ResultSendOk
         THEN /\ resQ' = IF kind = "for" THEN resQ
                         ELSE Send(resQ, Packet(cur[i][1], F(cur[i][2])))
              /\ wpc' = [wpc EXCEPT ![i] = "send_need"]
              /\ UNCHANGED <<needTx, wjob>>
         ELSE \* status.is_err(): the user disconnected
              /\ LeaveClosure(i)
              /\ wpc' = [wpc EXCEPT ![i] = AfterClosure]
              /\ UNCHANGED resQ
    /\ UNCHANGED <<callerVars, poolVars, supVars, panicked, subq,
                   jobDescVars, needQ, jobAlive, workQ, nextIdx, resRxAlive,
                   iterVars, failed, gotEnd, prevMap, workSent, workRun, ub>>

\* f(elem) panics; unwinding leaves the closure
WorkerCallPanic(i) ==
    /\ wpc[i] = "call_f"
    /\ calls' = [calls EXCEPT ![cur[i][1]] = @ + 1]
    /\ failed' = failed \cup {cur[i][1]}
    /\ cur' = [cur EXCEPT ![i] = <<>>]
    /\ LeaveClosure(i)
    /\ wpc' = [wpc EXCEPT ![i] = "canary"]
    /\ UNCHANGED <<callerVars, poolVars, supVars, panicked, subq,
                   jobDescVars, needQ, jobAlive, workQ, nextIdx, resQ,
                   resRxAlive, iterVars, gotEnd, prevMap, workSent, workRun,
                   ub>>

\* needwork.send(id).unwrap() at the top of the loop
WorkerSendNeed(i) ==
    /\ wpc[i] = "send_need"
    /\ IF Live(i)
         THEN /\ needQ' = Send(needQ, i)
              /\ wpc' = [wpc EXCEPT ![i] = "recv_elem"]
              /\ UNCHANGED <<needTx, wjob>>
         ELSE \* needwork_rx dropped with the job closure: unwrap panics
              /\ LeaveClosure(i)
              /\ wpc' = [wpc EXCEPT ![i] = "canary"]
              /\ UNCHANGED needQ
    /\ UNCHANGED <<callerVars, poolVars, supVars, panicked, subq, cur,
                   jobDescVars, jobAlive, workQ, nextIdx, resQ,
                   resRxAlive, iterVars, histVars, ub>>

\* unwinding reaches the thread's frame: PanicCanary::drop stores the flag,
\* then the thread's captured subrx drops and the thread ends
WorkerCanary(i) ==
    /\ wpc[i] = "canary"
    /\ panicked' = TRUE
    /\ subq' = [subq EXCEPT ![i] = <<>>]
    /\ wpc' = [wpc EXCEPT ![i] = "done"]
    /\ UNCHANGED <<callerVars, poolVars, supVars, wjob, cur, jobDescVars,
                   jobChanVars, resQ, resRxAlive, iterVars, histVars, ub>>

\* -------------------------------------------------------------------- Next
Next ==
    \/ \E n \in 0 .. MaxThreads : New(n)
    \/ \E k \in Kinds, len \in 0 .. MaxLen : Submit(k, len)
    \/ UnorderedNext
    \/ MapNext
    \/ IterDrop
    \/ Wait
    \/ TeardownSend
    \/ TeardownRecv
    \/ SupRecvJob
    \/ SupDispatch
    \/ SupCtrlStart
    \/ SupCtrlReply
    \/ SupCtrlEnd
    \/ SupFinishJob
    \/ SupAck
    \/ SupDropTxs
    \/ SupJoin
    \/ \E i \in Workers : WorkerStart(i)
    \/ \E i \in Workers : WorkerExit(i)
    \/ \E i \in Workers : WorkerRecvElem(i)
    \/ \E i \in Workers : WorkerCallOk(i)
    \/ \E i \in Workers : WorkerCallPanic(i)
    \/ \E i \in Workers : WorkerSendNeed(i)
    \/ \E i \in Workers : WorkerCanary(i)

Spec == Init /\ [][Next]_vars

\* Scheduling: the supervisor and the workers are OS threads, so each step
\* that stays possible is taken; every call of f returns or panics; a caller
\* blocked in job_finished.recv() returns once a message or a disconnect is
\* there.  Whether the caller submits, calls next() or drops is up to it.
Fairness ==
    /\ WF_vars(Wait) /\ WF_vars(TeardownRecv)
    /\ WF_vars(SupRecvJob) /\ WF_vars(SupDispatch) /\ WF_vars(SupCtrlStart)
    /\ WF_vars(SupCtrlReply) /\ WF_vars(SupCtrlEnd) /\ WF_vars(SupFinishJob)
    /\ WF_vars(SupAck) /\ WF_vars(SupDropTxs) /\ WF_vars(SupJoin)
    /\ \A i \in 0 .. (MaxThreads - 1) :
         /\ WF_vars(i \in Workers /\ WorkerStart(i))
         /\ WF_vars(i \in Workers /\ WorkerExit(i))
         /\ WF_vars(i \in Workers /\ WorkerRecvElem(i))
         /\ WF_vars(i \in Workers /\ (WorkerCallOk(i) \/ WorkerCallPanic(i)))
         /\ WF_vars(i \in Workers /\ WorkerSendNeed(i))
         /\ WF_vars(i \in Workers /\ WorkerCanary(i))

FairSpec == Spec /\ Fairness

\* ------------------------------------------------------- shared predicates
\* f has not failed on this pool: no worker is unwinding or has stored the flag
NoFailure == ~panicked /\ \A i \in Workers : wpc[i] # "canary"

\* no JobHandle is outstanding: the caller is past wait() / the handle's drop
HandleReleased == cpc \in {"idle", "drop_recv", "dropped"}

\* the supervisor is inside job.func.invoke(&txs)
SupInJob == spc \in {"dispatch", "main_fn", "ctrl_recv"}

\* f(S[0]), ..., f(S[len-1])
Expected == [j \in 1 .. Len(input) |-> F(input[j])]

\* {(i, f(S[i])) : 0 <= i < len(S)}
ExpectedPairs == {<<j - 1, F(input[j])>> : j \in 1 .. Len(input)}

IsPrefix(s, t) == Len(s) <= Len(t) /\ \A j \in 1 .. Len(s) : s[j] = t[j]

\* ------------------------------------------------------------------ claims
\* C1: for every worker count >= 1 and a non-failing f, no element is ever
\* processed twice, and when for_ has returned it returned normally and f
\* has been applied to every element of the sequence exactly once.
C1_ForEachExactlyOnce ==
    (nThreads >= 1 /\ jobsStarted >= 1 /\ kind = "for" /\ NoFailure)
        => /\ \A e \in DOMAIN calls : calls[e] <= 1
           /\ cpc # "wait" => /\ outcome = "ok"
                              /\ \A e \in DOMAIN calls : calls[e] = 1

C1_Witness ==
    /\ nThreads = MaxThreads /\ kind = "for" /\ cpc = "idle" /\ NoFailure
    /\ Len(input) = MaxLen /\ outcome = "ok"
    /\ \A e \in DOMAIN calls : calls[e] = 1

\* C2: for every worker count >= 1 and a non-failing f, what map has yielded
\* is always a prefix of f(S[0]), f(S[1]), ..., and once next() has returned
\* None it is the whole of it, whatever order the workers completed in.
C2_MapInOrder ==
    (nThreads >= 1 /\ jobsStarted >= 1 /\ kind = "map" /\ NoFailure)
        => /\ IsPrefix(out, Expected)
           /\ ended => out = Expected

C2_Witness ==
    /\ nThreads = MaxThreads /\ kind = "map" /\ NoFailure /\ ended
    /\ Len(input) = MaxLen /\ out = Expected

\* C3: for every worker count >= 1 and a non-failing f, every pair yielded by
\* unordered_map is (i, f(S[i])) for some position i, no index is yielded
\* twice, and once next() has returned None every index has been yielded.
C3_UnorderedExactSet ==
    (nThreads >= 1 /\ jobsStarted >= 1 /\ kind = "unordered" /\ NoFailure)
        => /\ \A j \in 1 .. Len(out) : out[j] \in ExpectedPairs
           /\ \A j, l \in 1 .. Len(out) : j # l => out[j][1] # out[l][1]
           /\ ended => {out[j] : j \in 1 .. Len(out)} = ExpectedPairs

\* a later index was yielded before an earlier one: completion order differs
\* from input order
C3_Witness ==
    /\ nThreads = MaxThreads /\ kind = "unordered" /\ NoFailure /\ ended
    /\ Len(input) = MaxLen /\ Len(out) = MaxLen
    /\ out[1][1] > out[2][1]

\* C4: no job outlives its JobHandle: once wait() or the handle's drop has
\* returned, the supervisor is not inside the job, no worker runs or is still
\* to run a Work closure of it, and the job closure has been dropped.
C4_NoJobOutlivesHandle ==
    (HandleReleased /\ jobsStarted >= 1)
        => /\ ~SupInJob
           /\ ~jobAlive
           /\ \A i \in Workers : ~InClosure(i) /\ subq[i] = <<>>

\* C5: if f panicked on an element of the job, the caller is told so: after
\* wait() or the handle's drop has returned, what it reported is the failure.
C5_FailureReported ==
    (cpc = "idle" /\ failed # {}) => outcome = "err"

\* job ids on the job queue
QueuedJobs == {j \in 1 .. Len(jobQ) : jobQ[j] # StopMsg}

\* the supervisor still serves its job queue
SupServing == spc \in {"recv_job", "dispatch", "main_fn", "ctrl_recv", "finish"}

\* C6: at most one job is in flight per pool: a serving supervisor has at most
\* one job, queued or running; while it runs a job the job's handle is
\* outstanding and no other job is queued, and every worker that is inside a
\* Work closure runs a closure of that same job.
C6_OneJobInFlight ==
    /\ SupServing =>
         Cardinality(QueuedJobs) + (IF spc = "recv_job" THEN 0 ELSE 1) <= 1
    /\ SupInJob => /\ cpc \in {"wait", "iter"}
                   /\ jobAlive
                   /\ \A i \in Workers : InClosure(i) => wjob[i] = jobsStarted

\* the second job of a pool is being run while its iterator is held
C6_Witness ==
    /\ jobsStarted >= 2 /\ spc = "ctrl_recv" /\ cpc = "iter"
    /\ \E i \in Workers : wpc[i] = "call_f"

\* C7: when teardown of a pool (no job in flight, f never failed) has
\* returned, the supervisor thread and every worker thread have terminated.
C7_TeardownJoinsThreads ==
    (cpc = "dropped" /\ nThreads >= 1 /\ NoFailure)
        => spc = "terminated" /\ \A i \in Workers : wpc[i] = "done"

\* C8: no pool with zero workers is ever returned, and no for_ call returns
\* normally while elements of its sequence are unprocessed.
C8_ZeroThreadsRejected ==
    /\ cpc # "start" => nThreads >= 1
    /\ (jobsStarted >= 1 /\ kind = "for" /\ cpc = "idle" /\ outcome = "ok"
            /\ NoFailure)
         => \A e \in DOMAIN calls : calls[e] = 1

\* the supervisor waits for a job, every worker waits for Work, nothing queued
PoolIdle ==
    /\ spc = "recv_job" /\ jobQ = <<>> /\ jobFinished = <<>>
    /\ ~jobAlive /\ needQ = <<>>
    /\ \A i \in Workers : wpc[i] = "recv_work" /\ subq[i] = <<>>

\* C9: for an empty input sequence on a pool of >= 1 workers on which f has
\* not failed: f is never invoked, nothing is sent or yielded as a result,
\* every reply of the controller is the end marker, and once the handle is
\* released the job was reported ok, every worker has received the end
\* marker and the pool is idle.
C9_EmptyInput ==
    (nThreads >= 1 /\ jobsStarted >= 1 /\ Len(input) = 0 /\ NoFailure)
        => /\ \A i \in Workers : wpc[i] # "call_f"
           /\ out = <<>> /\ resQ = <<>> /\ queue = {}
           /\ \A i \in Workers : \A j \in 1 .. Len(workQ[i]) : workQ[i][j] = End
           /\ cpc = "idle" => outcome = "ok" /\ gotEnd = Workers /\ PoolIdle

C9_Witness ==
    /\ nThreads = MaxThreads /\ jobsStarted >= 1 /\ Len(input) = 0
    /\ kind = "map" /\ ended /\ out = <<>> /\ cpc = "idle" /\ outcome = "ok"
    /\ gotEnd = Workers /\ NoFailure

\* C10: while f has not failed on the pool, whenever the caller holds no
\* handle the pool is idle again with every worker alive and waiting for
\* Work, and a map call that ran to its end on the same input as an earlier
\* map call of this pool has yielded the same output sequence.
C10_ReusableDeterministic ==
    NoFailure
        => /\ cpc = "idle" => PoolIdle
           /\ (kind = "map" /\ ended /\ prevMap # <<>> /\ prevMap[1] = input)
                => out = prevMap[2]

C10_Witness ==
    /\ nThreads = MaxThreads /\ jobsStarted >= 2 /\ NoFailure
    /\ kind = "map" /\ ended /\ cpc = "iter"
    /\ Len(input) = MaxLen /\ prevMap = <<input, out>>

\* C11: once the consumer has dropped the iterator, a worker that finishes
\* its element (the element is still finished) and finds the result send
\* failed leaves the closure without another work request; dropping the
\* iterator interrupts no worker; and, on a pool on which f had not failed,
\* the handle's release then returns, exhausted input or not.
C11_Cancellation ==
    /\ [][\A i \in Workers :
            /\ (wpc[i] = "call_f" /\ kind # "for" /\ ~resRxAlive
                    /\ wpc'[i] # "call_f")
                 => /\ wpc'[i] \in {"recv_work", "canary"}
                    /\ needQ' = needQ /\ i \notin needTx'
                    /\ calls'[cur[i][1]] = calls[cur[i][1]] + 1
            /\ (resRxAlive /\ ~resRxAlive') => wpc' = wpc /\ cur' = cur]_vars
    /\ (cpc = "wait" /\ kind # "for" /\ NoFailure) ~> (cpc = "idle")

\* the handle was released with input left over and a result nobody took
C11_Witness ==
    /\ nThreads = MaxThreads /\ kind = "unordered" /\ cpc = "idle"
    /\ NoFailure /\ outcome = "ok" /\ ~jobAlive
    /\ nextIdx < Len(input)
    /\ \E e \in DOMAIN calls : calls[e] = 1
    /\ out = <<>>

\* C12: under fair scheduling every for_ call on a finite sequence returns
\* or propagates a failure: a caller waiting in for_ eventually leaves it.
C12_ForTerminates ==
    (cpc = "wait" /\ kind = "for") ~> (cpc = "idle")

\* C13: for every job on a pool whose workers are all alive, the factory
\* makes n_threads worker closures; no worker is ever sent or invokes more
\* than one Work of the job, and invokes none it was not sent; once the
\* supervisor is past the zip loop every worker has been sent exactly one,
\* and once the job is over every worker has invoked exactly one.
C13_OneWorkPerWorker ==
    (nThreads >= 1 /\ jobsStarted >= 1 /\ NoFailure)
        => /\ Cardinality(WorkerFns) = nThreads
           /\ \A i \in Workers : workSent[i] <= 1 /\ workRun[i] <= workSent[i]
           /\ spc \in {"main_fn", "ctrl_recv", "finish"}
                => \A i \in Workers : workSent[i] = 1
           /\ (spc = "finish" \/ cpc = "idle")
                => \A i \in Workers : workSent[i] = 1 /\ workRun[i] = 1

\* the second job of a pool is over
C13_Witness ==
    /\ nThreads = MaxThreads /\ jobsStarted >= 2 /\ NoFailure
    /\ cpc = "idle" /\ outcome = "ok"
    /\ \A i \in Workers : workSent[i] = 1 /\ workRun[i] = 1

\* requests of worker i waiting on the needwork channel
Requests(i) == Cardinality({j \in 1 .. Len(needQ) : needQ[j] = i})

\* C14: pull protocol.  Per worker, requests waiting plus replies waiting
\* never exceed one, and there is one only while that worker waits for its
\* reply; a reply is an element already taken from the sequence or the end
\* marker; a worker that got the end marker is out of the closure with no
\* request left.  Every send on a private channel answers the request at the
\* head of needwork, on the channel of the worker that sent it, with the next
\* element, or the end marker once the sequence is exhausted.
C14_PullProtocol ==
    /\ [](\A i \in Workers :
            /\ Requests(i) + Len(workQ[i]) <= 1
            /\ Requests(i) + Len(workQ[i]) = 1 => wpc[i] = "recv_elem"
            /\ \A j \in 1 .. Len(workQ[i]) :
                  \/ workQ[i][j] = End /\ nextIdx = Len(input)
                  \/ /\ workQ[i][j] # End
                     /\ workQ[i][j][1] < nextIdx
                     /\ workQ[i][j][2] = input[workQ[i][j][1] + 1]
            /\ i \in gotEnd => ~InClosure(i) /\ Requests(i) = 0)
    /\ [][\A i \in Workers :
            Len(workQ'[i]) > Len(workQ[i])
                => /\ needQ # <<>> /\ Head(needQ) = i /\ needQ' = Tail(needQ)
                   /\ workQ'[i] = Append(workQ[i],
                          IF nextIdx < Len(input)
                            THEN <<nextIdx, input[nextIdx + 1]>> ELSE End)
                   /\ nextIdx' = IF nextIdx < Len(input)
                                   THEN nextIdx + 1 ELSE nextIdx]_vars

\* a worker holds the end marker as its one reply while another still works
C14_Witness ==
    /\ nThreads = MaxThreads /\ Len(input) = MaxLen /\ nextIdx = Len(input)
    /\ \E i, j \in Workers :
          /\ workQ[i] = <<End>> /\ wpc[i] = "recv_elem"
          /\ wpc[j] = "call_f"

\* C15: in every state of a ParMap, looking_for is >= 0 and 0 when the
\* iterator is made, every buffered Packet has idx >= looking_for, no two
\* buffered Packets (nor any still to be received) share an idx; looking_for
\* never decreases, and a Packet leaves the buffer only when its idx equals
\* looking_for, which then grows by one.
C15_ParMapBuffer ==
    /\ [](/\ lookingFor >= 0
          /\ \A p \in queue : p.idx >= lookingFor
          /\ \A p, q \in queue : p.idx = q.idx => p = q
          /\ \A j \in 1 .. Len(resQ) :
                /\ resQ[j].idx >= lookingFor
                /\ \A p \in queue : p.idx # resQ[j].idx
                /\ \A l \in 1 .. Len(resQ) : resQ[l].idx = resQ[j].idx => l = j)
    /\ [][IF jobsStarted' # jobsStarted
            THEN lookingFor' = 0 /\ queue' = {}
            ELSE /\ lookingFor' >= lookingFor
                 /\ \A p \in queue \ queue' :
                       p.idx = lookingFor /\ lookingFor' = lookingFor + 1]_vars

\* the buffer holds two Packets that arrived ahead of the one looked for
C15_Witness ==
    /\ kind = "map" /\ cpc = "iter" /\ nThreads = MaxThreads
    /\ lookingFor = 0 /\ out = <<>>
    /\ Cardinality(queue) = 2 /\ \A p \in queue : p.idx > lookingFor

\* C16: main_fn does not quit before the workers do: whenever the job closure
\* (main_fn, worker_fns) of the current job has been released, no worker is
\* inside a Work closure of that job, none has a Work of it still to take,
\* and no worker has run a Work whose closure was already released.
C16_ControllerOutlivesWorkers ==
    /\ \A i \in Workers :
          /\ InClosure(i) => Live(i)
          /\ \A j \in 1 .. Len(subq[i]) :
                wpc[i] # "canary" => subq[i][j] = jobsStarted /\ jobAlive
    /\ ~ub

\* C17: a job started on a pool after a job during which f failed is
\* reported to the caller as failed: when its handle is released and f failed
\* in an earlier job (the flag is set, though not by the current job), the
\* outcome is the failure.
C17_PoisonedPoolFails ==
    (cpc = "idle" /\ jobsStarted >= 2 /\ panicked /\ failed = {} /\ ~ub)
        => outcome = "err"

\* workers holding element e, and replies carrying it that wait to be taken
Holders(e) == {i \in Workers : cur[i] # <<>> /\ cur[i][1] = e}
InReplies(e) ==
    {<<i, j>> \in Workers \X (1 .. MaxLen + 1) :
        j <= Len(workQ[i]) /\ workQ[i][j] # End /\ workQ[i][j][1] = e}

\* C18: in every run, failures of f and early disconnects included, each
\* element taken from the sequence is handed to at most one worker and f is
\* invoked on it at most once: per element, invocations plus workers holding
\* it plus replies carrying it never exceed one, and are zero for an element
\* not yet taken; so the invocations never exceed the elements taken.
C18_AtMostOnce ==
    jobsStarted >= 1
        => \A e \in DOMAIN calls :
             /\ calls[e] + Cardinality(Holders(e)) + Cardinality(InReplies(e))
                  <= 1
             /\ e >= nextIdx
                  => calls[e] + Cardinality(Holders(e))
                        + Cardinality(InReplies(e)) = 0

\* f failed on one element, the consumer left early, one element never taken
C18_Witness ==
    /\ nThreads = MaxThreads /\ kind = "map" /\ cpc = "idle"
    /\ Len(input) = MaxLen /\ failed # {} /\ nextIdx < Len(input)
    /\ \E e \in DOMAIN calls : calls[e] = 1 /\ e \notin failed

\* C19: teardown of a pool after one of its jobs failed raises no failure on
\* the caller: the send of the stop sentinel and the receive of the
\* acknowledgement both succeed, and the acknowledgement is Ok.
C19_TeardownAfterFailure ==
    (cpc = "dropped" /\ panicked /\ ~ub) => outcome = "ok"

\* C20: the completion handshake is one-to-one: the completion channel never
\* holds more than one outcome, it is empty whenever no handle is
\* outstanding (so when a handle is created), and an outcome that waits for
\* an outstanding handle is the outcome of that handle's job, which is over.
C20_OneOutcomePerJob ==
    /\ Len(jobFinished) <= 1
    /\ cpc = "idle" => jobFinished = <<>>
    /\ (cpc \in {"wait", "iter"} /\ jobFinished # <<>>)
         => ~jobAlive /\ ~SupInJob

\* the smallest index on which f failed in the current job
FirstFailed == CHOOSE k \in failed : \A e \in failed : k <= e

\* C21: when f failed on elements of a map call, what the iterator has
\* yielded is, in input order, results of indices below the smallest failed
\* index k and nothing else; once next() has returned None it is exactly
\* f(S[0]), ..., f(S[k-1]).
C21_MapStopsAtFailure ==
    (kind = "map" /\ jobsStarted >= 1 /\ failed # {})
        => /\ IsPrefix(out, Expected)
           /\ Len(out) <= FirstFailed
           /\ ended => Len(out) = FirstFailed

\* the iterator ended before a result that was computed and buffered
C21_Witness ==
    /\ kind = "map" /\ nThreads = MaxThreads /\ Len(input) = MaxLen
    /\ ended /\ failed = {1} /\ Len(out) = 1
    /\ \E p \in queue : p.idx = 2

=============================================================================
